---- MODULE Spec2Model ----
(***************************************************************************)
(* A model of StatcheckTester (src/statcheck/pipeline.py): the extraction  *)
(* loop with its adjacent-duplicate filter, the statcheck loop that turns   *)
(* every complete test into one result row, and the pure functions the      *)
(* loop calls (calculate_p_value, get_decimal_places, compare_p_values,     *)
(* determine_reported_significance, determine_recalculated_significance).   *)
(* main of src/statcheck/main_multiple_runs.py, which calls the pipeline    *)
(* three times and reports the most frequent result, is modelled on top.    *)
(*                                                                          *)
(* Numbers.  Python floats are modelled as exact decimals in fixed point:   *)
(* an integer v stands for v * 1e-5.  The 1e-10 the code subtracts from     *)
(* every upper window edge is far below one unit, so a quantity is a pair   *)
(* [v, e] standing for v * 1e-5 + e * 1e-10, ordered lexicographically.     *)
(* Binary rounding error of float arithmetic is not modelled.               *)
(*                                                                          *)
(* Python values.  A value of a numeric field is [ty, v, s]: ty is the      *)
(* Python type ("none", "int", "float", "str"), v the number, s the text    *)
(* of a str.  Text fields (test_type, operator, tail) are strings, with     *)
(* None for Python's None.                                                  *)
(***************************************************************************)
EXTENDS Integers, Sequences, FiniteSets, TLC

VARIABLES
    responses,          \* what extract_data_from_text returns for each segment of file_context
    seg,                \* extraction loop: index of the next segment (idx + 1)
    all_tests,          \* the tests collected so far
    pc,                 \* "extract" | "check" | "done"
    t,                  \* statcheck loop: index of the next test of all_tests
    statcheck_results,  \* the rows appended so far
    row_src,            \* history: for every row, the index in all_tests of its test
    evals,              \* history: for every row, what calculate_p_value returned for it
    result              \* what perform_statcheck_test returns, once pc = "done"

vars == <<responses, seg, all_tests, pc, t, statcheck_results, row_src, evals, result>>

\* ------------------------------------------------------------------------
\* Fixed-point numbers
\* ------------------------------------------------------------------------
Scale == 10^5

None == "None"

Num(v, e) == [v |-> v, e |-> e]
Zero == Num(0, 0)
One == Num(Scale, 0)

NumLess(a, b) == a.v < b.v \/ (a.v = b.v /\ a.e < b.e)
NumLeq(a, b) == ~NumLess(b, a)
NumAbs(a) == IF NumLess(a, Zero) THEN Num(-a.v, -a.e) ELSE a
NumMin(a, b) == IF NumLess(b, a) THEN b ELSE a
NumMax(a, b) == IF NumLess(a, b) THEN b ELSE a
NumDouble(a) == Num(2 * a.v, 2 * a.e)

Max(a, b) == IF a >= b THEN a ELSE b
Abs(x) == IF x < 0 THEN -x ELSE x

\* ------------------------------------------------------------------------
\* Python values, literals and their str()
\* ------------------------------------------------------------------------
PyNone == [ty |-> "none", v |-> 0, s |-> ""]
PyInt(v) == [ty |-> "int", v |-> v, s |-> ""]
PyFloat(v) == [ty |-> "float", v |-> v, s |-> ""]
PyStr(s) == [ty |-> "str", v |-> 0, s |-> s]

IsNone(x) == x.ty = "none"
IsNumber(x) == x.ty \in {"int", "float"}

\* A literal of the model's answer: k = "none" (None), "num" (a number written
\* with mantissa m and d digits after the point; no point when d = 0) or
\* "str" (a quoted string s).
LitNone == [k |-> "none", m |-> 0, d |-> 0, s |-> ""]
LitNum(m, d) == [k |-> "num", m |-> m, d |-> d, s |-> ""]
LitStr(s) == [k |-> "str", m |-> 0, d |-> 0, s |-> s]

\* ast.literal_eval of one literal: a number written without a point is an int,
\* one written with a point a float, and a float keeps its value only: the
\* zeros it was written with are gone.
LiteralEval(lit) ==
    CASE lit.k = "none" -> PyNone
      [] lit.k = "str" -> PyStr(lit.s)
      [] lit.k = "num" /\ lit.d = 0 -> PyInt(lit.m * Scale)
      [] OTHER -> PyFloat(lit.m * 10^(5 - lit.d))

\* The least number of decimals that writes v exactly (0..5).
MinDecimals(v) == CHOOSE d \in 0..5 :
    /\ v % 10^(5 - d) = 0
    /\ \A k \in 0..5 : v % 10^(5 - k) = 0 => d <= k

\* A piece of text holding a number: the value shown, whether the text has a
\* ".", and how many characters follow the ".".  form is "digits" (123.45),
\* "sci" (1e-05), or the text itself for None and for strings.
Text(form, v, dot, frac) == [form |-> form, v |-> v, dot |-> dot, frac |-> frac]

\* str(x).  repr of a float is the shortest text that reads back to it: at
\* least one decimal ("2.0"), and scientific notation below 1e-4, where one
\* significant digit gives a text without a "." ("1e-05").
Str(x) ==
    CASE x.ty = "none" -> Text(None, 0, FALSE, 0)
      [] x.ty = "str" -> Text(x.s, 0, FALSE, 0)
      [] x.ty = "int" -> Text("digits", x.v, FALSE, 0)
      [] OTHER ->
           IF x.v # 0 /\ Abs(x.v) < 10
           THEN Text("sci", x.v, FALSE, 0)
           ELSE Text("digits", x.v, TRUE, Max(1, MinDecimals(x.v)))

\* float(x) of calculate_p_value and determine_reported_significance:
\* [ok, v]; ok = FALSE stands for the ValueError of an unparseable string.
ToFloat(x) ==
    IF IsNumber(x) THEN [ok |-> TRUE, v |-> x.v] ELSE [ok |-> FALSE, v |-> 0]

\* f"{x:.2f}": the value rounded to two decimals (ties to even), two decimals shown.
RoundTo(v, unit) ==
    LET lo == (v \div unit) * unit
        r == v - lo
    IN  IF 2 * r < unit THEN lo
        ELSE IF 2 * r > unit THEN lo + unit
        ELSE IF (lo \div unit) % 2 = 0 THEN lo ELSE lo + unit

Format2f(x) == Text("digits", RoundTo(x.v, 1000), TRUE, 2)

\* ------------------------------------------------------------------------
\* scipy.stats survival functions
\* ------------------------------------------------------------------------
\* One call of a survival function: dist is "t" (stats.t.sf), "f" (stats.f.sf),
\* "chi2" (stats.chi2.sf) or "norm" (stats.norm.sf); the argument is the
\* window bound x, converted from r to t when conv = "r2t" and passed through
\* abs() when abs is TRUE; dfn and dfd are the degrees of freedom passed
\* (0 where the distribution takes none).
SfCall(dist, conv, abs, x, dfn, dfd) ==
    [dist |-> dist, conv |-> conv, abs |-> abs, x |-> x, dfn |-> dfn, dfd |-> dfd]

\* The library's values at the arguments the model passes, to the nearest
\* 1e-5: <<v, e>> with e = 1 for a positive value below half a unit and
\* <<0, 0>> where the float result is exactly 0.0.
SfTable ==
       (<<"norm", "id", TRUE, -45500, 0, 0, 0>> :> <<32455, 0>>)
    @@ (<<"t", "id", TRUE, -45500, 0, 2000000, 0>> :> <<32700, 0>>)
    @@ (<<"t", "r2t", TRUE, -45500, 0, 2000000, 0>> :> <<1668, 0>>)
    @@ (<<"t", "id", TRUE, -45500, 0, 250000, 0>> :> <<34282, 0>>)
    @@ (<<"t", "r2t", TRUE, -45500, 0, 250000, 0>> :> <<24443, 0>>)
    @@ (<<"t", "id", TRUE, -45500, 0, 1500000, 0>> :> <<32781, 0>>)
    @@ (<<"t", "r2t", TRUE, -45500, 0, 1500000, 0>> :> <<3324, 0>>)
    @@ (<<"t", "id", TRUE, -45500, 0, 187500, 0>> :> <<34816, 0>>)
    @@ (<<"t", "r2t", TRUE, -45500, 0, 187500, 0>> :> <<28037, 0>>)
    @@ (<<"norm", "id", FALSE, -45500, 0, 0, 0>> :> <<67545, 0>>)
    @@ (<<"t", "id", FALSE, -45500, 0, 2000000, 0>> :> <<67300, 0>>)
    @@ (<<"t", "r2t", FALSE, -45500, 0, 2000000, 0>> :> <<98332, 0>>)
    @@ (<<"t", "id", FALSE, -45500, 0, 250000, 0>> :> <<65718, 0>>)
    @@ (<<"t", "r2t", FALSE, -45500, 0, 250000, 0>> :> <<75557, 0>>)
    @@ (<<"t", "id", FALSE, -45500, 0, 1500000, 0>> :> <<67219, 0>>)
    @@ (<<"t", "r2t", FALSE, -45500, 0, 1500000, 0>> :> <<96676, 0>>)
    @@ (<<"t", "id", FALSE, -45500, 0, 187500, 0>> :> <<65184, 0>>)
    @@ (<<"t", "r2t", FALSE, -45500, 0, 187500, 0>> :> <<71963, 0>>)
    @@ (<<"chi2", "id", FALSE, -45500, 0, 2000000, 0>> :> <<100000, 0>>)
    @@ (<<"f", "id", FALSE, -45500, 0, 2000000, 2500000>> :> <<100000, 0>>)
    @@ (<<"f", "id", FALSE, -45500, 0, 2000000, 1875000>> :> <<100000, 0>>)
    @@ (<<"chi2", "id", FALSE, -45500, 0, 250000, 0>> :> <<100000, 0>>)
    @@ (<<"f", "id", FALSE, -45500, 0, 250000, 2500000>> :> <<100000, 0>>)
    @@ (<<"f", "id", FALSE, -45500, 0, 250000, 1875000>> :> <<100000, 0>>)
    @@ (<<"chi2", "id", FALSE, -45500, 0, 1500000, 0>> :> <<100000, 0>>)
    @@ (<<"f", "id", FALSE, -45500, 0, 1500000, 2500000>> :> <<100000, 0>>)
    @@ (<<"f", "id", FALSE, -45500, 0, 1500000, 1875000>> :> <<100000, 0>>)
    @@ (<<"chi2", "id", FALSE, -45500, 0, 187500, 0>> :> <<100000, 0>>)
    @@ (<<"f", "id", FALSE, -45500, 0, 187500, 2500000>> :> <<100000, 0>>)
    @@ (<<"f", "id", FALSE, -45500, 0, 187500, 1875000>> :> <<100000, 0>>)
    @@ (<<"norm", "id", TRUE, -44500, -1, 0, 0>> :> <<32816, 0>>)
    @@ (<<"t", "id", TRUE, -44500, -1, 2000000, 0>> :> <<33055, 0>>)
    @@ (<<"t", "r2t", TRUE, -44500, -1, 2000000, 0>> :> <<1898, 0>>)
    @@ (<<"t", "id", TRUE, -44500, -1, 250000, 0>> :> <<34598, 0>>)
    @@ (<<"t", "r2t", TRUE, -44500, -1, 250000, 0>> :> <<24983, 0>>)
    @@ (<<"t", "id", TRUE, -44500, -1, 1500000, 0>> :> <<33134, 0>>)
    @@ (<<"t", "r2t", TRUE, -44500, -1, 1500000, 0>> :> <<3673, 0>>)
    @@ (<<"t", "id", TRUE, -44500, -1, 187500, 0>> :> <<35119, 0>>)
    @@ (<<"t", "r2t", TRUE, -44500, -1, 187500, 0>> :> <<28524, 0>>)
    @@ (<<"norm", "id", FALSE, -44500, -1, 0, 0>> :> <<67184, 0>>)
    @@ (<<"t", "id", FALSE, -44500, -1, 2000000, 0>> :> <<66945, 0>>)
    @@ (<<"t", "r2t", FALSE, -44500, -1, 2000000, 0>> :> <<98102, 0>>)
    @@ (<<"t", "id", FALSE, -44500, -1, 250000, 0>> :> <<65402, 0>>)
    @@ (<<"t", "r2t", FALSE, -44500, -1, 250000, 0>> :> <<75017, 0>>)
    @@ (<<"t", "id", FALSE, -44500, -1, 1500000, 0>> :> <<66866, 0>>)
    @@ (<<"t", "r2t", FALSE, -44500, -1, 1500000, 0>> :> <<96327, 0>>)
    @@ (<<"t", "id", FALSE, -44500, -1, 187500, 0>> :> <<64881, 0>>)
    @@ (<<"t", "r2t", FALSE, -44500, -1, 187500, 0>> :> <<71476, 0>>)
    @@ (<<"chi2", "id", FALSE, -44500, -1, 2000000, 0>> :> <<100000, 0>>)
    @@ (<<"f", "id", FALSE, -44500, -1, 2000000, 2500000>> :> <<100000, 0>>)
    @@ (<<"f", "id", FALSE, -44500, -1, 2000000, 1875000>> :> <<100000, 0>>)
    @@ (<<"chi2", "id", FALSE, -44500, -1, 250000, 0>> :> <<100000, 0>>)
    @@ (<<"f", "id", FALSE, -44500, -1, 250000, 2500000>> :> <<100000, 0>>)
    @@ (<<"f", "id", FALSE, -44500, -1, 250000, 1875000>> :> <<100000, 0>>)
    @@ (<<"chi2", "id", FALSE, -44500, -1, 1500000, 0>> :> <<100000, 0>>)
    @@ (<<"f", "id", FALSE, -44500, -1, 1500000, 2500000>> :> <<100000, 0>>)
    @@ (<<"f", "id", FALSE, -44500, -1, 1500000, 1875000>> :> <<100000, 0>>)
    @@ (<<"chi2", "id", FALSE, -44500, -1, 187500, 0>> :> <<100000, 0>>)
    @@ (<<"f", "id", FALSE, -44500, -1, 187500, 2500000>> :> <<100000, 0>>)
    @@ (<<"f", "id", FALSE, -44500, -1, 187500, 1875000>> :> <<100000, 0>>)
    @@ (<<"norm", "id", TRUE, 195500, 0, 0, 0>> :> <<2529, 0>>)
    @@ (<<"t", "id", TRUE, 195500, 0, 2000000, 0>> :> <<3235, 0>>)
    @@ (<<"t", "r2t", TRUE, 195500, 0, 2000000, 0>> :> <<2, 0>>)
    @@ (<<"t", "id", TRUE, 195500, 0, 250000, 0>> :> <<8183, 0>>)
    @@ (<<"t", "r2t", TRUE, 195500, 0, 250000, 0>> :> <<9056, 0>>)
    @@ (<<"t", "id", TRUE, 195500, 0, 1500000, 0>> :> <<3474, 0>>)
    @@ (<<"t", "r2t", TRUE, 195500, 0, 1500000, 0>> :> <<21, 0>>)
    @@ (<<"t", "id", TRUE, 195500, 0, 187500, 0>> :> <<9909, 0>>)
    @@ (<<"t", "r2t", TRUE, 195500, 0, 187500, 0>> :> <<13005, 0>>)
    @@ (<<"norm", "id", FALSE, 195500, 0, 0, 0>> :> <<2529, 0>>)
    @@ (<<"t", "id", FALSE, 195500, 0, 2000000, 0>> :> <<3235, 0>>)
    @@ (<<"t", "id", FALSE, 195500, 0, 250000, 0>> :> <<8183, 0>>)
    @@ (<<"t", "id", FALSE, 195500, 0, 1500000, 0>> :> <<3474, 0>>)
    @@ (<<"t", "id", FALSE, 195500, 0, 187500, 0>> :> <<9909, 0>>)
    @@ (<<"chi2", "id", FALSE, 195500, 0, 2000000, 0>> :> <<100000, 0>>)
    @@ (<<"f", "id", FALSE, 195500, 0, 2000000, 2500000>> :> <<5667, 0>>)
    @@ (<<"f", "id", FALSE, 195500, 0, 2000000, 1875000>> :> <<7597, 0>>)
    @@ (<<"chi2", "id", FALSE, 195500, 0, 250000, 0>> :> <<48300, 0>>)
    @@ (<<"f", "id", FALSE, 195500, 0, 250000, 2500000>> :> <<15447, 0>>)
    @@ (<<"f", "id", FALSE, 195500, 0, 250000, 1875000>> :> <<16236, 0>>)
    @@ (<<"chi2", "id", FALSE, 195500, 0, 1500000, 0>> :> <<99997, 0>>)
    @@ (<<"f", "id", FALSE, 195500, 0, 1500000, 2500000>> :> <<6692, 0>>)
    @@ (<<"f", "id", FALSE, 195500, 0, 1500000, 1875000>> :> <<8522, 0>>)
    @@ (<<"chi2", "id", FALSE, 195500, 0, 187500, 0>> :> <<34890, 0>>)
    @@ (<<"f", "id", FALSE, 195500, 0, 187500, 2500000>> :> <<16461, 0>>)
    @@ (<<"f", "id", FALSE, 195500, 0, 187500, 1875000>> :> <<17106, 0>>)
    @@ (<<"norm", "id", TRUE, 196500, -1, 0, 0>> :> <<2471, 0>>)
    @@ (<<"t", "id", TRUE, 196500, -1, 2000000, 0>> :> <<3173, 0>>)
    @@ (<<"t", "r2t", TRUE, 196500, -1, 2000000, 0>> :> <<2, 0>>)
    @@ (<<"t", "id", TRUE, 196500, -1, 250000, 0>> :> <<8112, 0>>)
    @@ (<<"t", "r2t", TRUE, 196500, -1, 250000, 0>> :> <<9083, 0>>)
    @@ (<<"t", "id", TRUE, 196500, -1, 1500000, 0>> :> <<3411, 0>>)
    @@ (<<"t", "r2t", TRUE, 196500, -1, 1500000, 0>> :> <<21, 0>>)
    @@ (<<"t", "id", TRUE, 196500, -1, 187500, 0>> :> <<9838, 0>>)
    @@ (<<"t", "r2t", TRUE, 196500, -1, 187500, 0>> :> <<13034, 0>>)
    @@ (<<"norm", "id", FALSE, 196500, -1, 0, 0>> :> <<2471, 0>>)
    @@ (<<"t", "id", FALSE, 196500, -1, 2000000, 0>> :> <<3173, 0>>)
    @@ (<<"t", "id", FALSE, 196500, -1, 250000, 0>> :> <<8112, 0>>)
    @@ (<<"t", "id", FALSE, 196500, -1, 1500000, 0>> :> <<3411, 0>>)
    @@ (<<"t", "id", FALSE, 196500, -1, 187500, 0>> :> <<9838, 0>>)
    @@ (<<"chi2", "id", FALSE, 196500, -1, 2000000, 0>> :> <<100000, 0>>)
    @@ (<<"f", "id", FALSE, 196500, -1, 2000000, 2500000>> :> <<5534, 0>>)
    @@ (<<"f", "id", FALSE, 196500, -1, 2000000, 1875000>> :> <<7445, 0>>)
    @@ (<<"chi2", "id", FALSE, 196500, -1, 250000, 0>> :> <<48094, 0>>)
    @@ (<<"f", "id", FALSE, 196500, -1, 250000, 2500000>> :> <<15298, 0>>)
    @@ (<<"f", "id", FALSE, 196500, -1, 250000, 1875000>> :> <<16087, 0>>)
    @@ (<<"chi2", "id", FALSE, 196500, -1, 1500000, 0>> :> <<99997, 0>>)
    @@ (<<"f", "id", FALSE, 196500, -1, 1500000, 2500000>> :> <<6548, 0>>)
    @@ (<<"f", "id", FALSE, 196500, -1, 1500000, 1875000>> :> <<8364, 0>>)
    @@ (<<"chi2", "id", FALSE, 196500, -1, 187500, 0>> :> <<34709, 0>>)
    @@ (<<"f", "id", FALSE, 196500, -1, 187500, 2500000>> :> <<16324, 0>>)
    @@ (<<"f", "id", FALSE, 196500, -1, 187500, 1875000>> :> <<16969, 0>>)
    @@ (<<"norm", "id", TRUE, 209500, 0, 0, 0>> :> <<1809, 0>>)
    @@ (<<"t", "id", TRUE, 209500, 0, 2000000, 0>> :> <<2455, 0>>)
    @@ (<<"t", "r2t", TRUE, 209500, 0, 2000000, 0>> :> <<3, 0>>)
    @@ (<<"t", "id", TRUE, 209500, 0, 250000, 0>> :> <<7256, 0>>)
    @@ (<<"t", "r2t", TRUE, 209500, 0, 250000, 0>> :> <<9393, 0>>)
    @@ (<<"t", "id", TRUE, 209500, 0, 1500000, 0>> :> <<2678, 0>>)
    @@ (<<"t", "r2t", TRUE, 209500, 0, 1500000, 0>> :> <<25, 0>>)
    @@ (<<"t", "id", TRUE, 209500, 0, 187500, 0>> :> <<8980, 0>>)
    @@ (<<"t", "r2t", TRUE, 209500, 0, 187500, 0>> :> <<13373, 0>>)
    @@ (<<"norm", "id", FALSE, 209500, 0, 0, 0>> :> <<1809, 0>>)
    @@ (<<"t", "id", FALSE, 209500, 0, 2000000, 0>> :> <<2455, 0>>)
    @@ (<<"t", "id", FALSE, 209500, 0, 250000, 0>> :> <<7256, 0>>)
    @@ (<<"t", "id", FALSE, 209500, 0, 1500000, 0>> :> <<2678, 0>>)
    @@ (<<"t", "id", FALSE, 209500, 0, 187500, 0>> :> <<8980, 0>>)
    @@ (<<"chi2", "id", FALSE, 209500, 0, 2000000, 0>> :> <<100000, 0>>)
    @@ (<<"f", "id", FALSE, 209500, 0, 2000000, 2500000>> :> <<4060, 0>>)
    @@ (<<"f", "id", FALSE, 209500, 0, 2000000, 1875000>> :> <<5735, 0>>)
    @@ (<<"chi2", "id", FALSE, 209500, 0, 250000, 0>> :> <<45485, 0>>)
    @@ (<<"f", "id", FALSE, 209500, 0, 250000, 2500000>> :> <<13492, 0>>)
    @@ (<<"f", "id", FALSE, 209500, 0, 250000, 1875000>> :> <<14282, 0>>)
    @@ (<<"chi2", "id", FALSE, 209500, 0, 1500000, 0>> :> <<99996, 0>>)
    @@ (<<"f", "id", FALSE, 209500, 0, 1500000, 2500000>> :> <<4934, 0>>)
    @@ (<<"f", "id", FALSE, 209500, 0, 1500000, 1875000>> :> <<6562, 0>>)
    @@ (<<"chi2", "id", FALSE, 209500, 0, 187500, 0>> :> <<32446, 0>>)
    @@ (<<"f", "id", FALSE, 209500, 0, 187500, 2500000>> :> <<14651, 0>>)
    @@ (<<"f", "id", FALSE, 209500, 0, 187500, 1875000>> :> <<15300, 0>>)
    @@ (<<"norm", "id", TRUE, 210500, -1, 0, 0>> :> <<1765, 0>>)
    @@ (<<"t", "id", TRUE, 210500, -1, 2000000, 0>> :> <<2407, 0>>)
    @@ (<<"t", "r2t", TRUE, 210500, -1, 2000000, 0>> :> <<3, 0>>)
    @@ (<<"t", "id", TRUE, 210500, -1, 250000, 0>> :> <<7195, 0>>)
    @@ (<<"t", "r2t", TRUE, 210500, -1, 250000, 0>> :> <<9414, 0>>)
    @@ (<<"t", "id", TRUE, 210500, -1, 1500000, 0>> :> <<2628, 0>>)
    @@ (<<"t", "r2t", TRUE, 210500, -1, 1500000, 0>> :> <<26, 0>>)
    @@ (<<"t", "id", TRUE, 210500, -1, 187500, 0>> :> <<8918, 0>>)
    @@ (<<"t", "r2t", TRUE, 210500, -1, 187500, 0>> :> <<13396, 0>>)
    @@ (<<"norm", "id", FALSE, 210500, -1, 0, 0>> :> <<1765, 0>>)
    @@ (<<"t", "id", FALSE, 210500, -1, 2000000, 0>> :> <<2407, 0>>)
    @@ (<<"t", "id", FALSE, 210500, -1, 250000, 0>> :> <<7195, 0>>)
    @@ (<<"t", "id", FALSE, 210500, -1, 1500000, 0>> :> <<2628, 0>>)
    @@ (<<"t", "id", FALSE, 210500, -1, 187500, 0>> :> <<8918, 0>>)
    @@ (<<"chi2", "id", FALSE, 210500, -1, 2000000, 0>> :> <<100000, 0>>)
    @@ (<<"f", "id", FALSE, 210500, -1, 2000000, 2500000>> :> <<3964, 0>>)
    @@ (<<"f", "id", FALSE, 210500, -1, 2000000, 1875000>> :> <<5621, 0>>)
    @@ (<<"chi2", "id", FALSE, 210500, -1, 250000, 0>> :> <<45290, 0>>)
    @@ (<<"f", "id", FALSE, 210500, -1, 250000, 2500000>> :> <<13363, 0>>)
    @@ (<<"f", "id", FALSE, 210500, -1, 250000, 1875000>> :> <<14152, 0>>)
    @@ (<<"chi2", "id", FALSE, 210500, -1, 1500000, 0>> :> <<99996, 0>>)
    @@ (<<"f", "id", FALSE, 210500, -1, 1500000, 2500000>> :> <<4828, 0>>)
    @@ (<<"f", "id", FALSE, 210500, -1, 1500000, 1875000>> :> <<6441, 0>>)
    @@ (<<"chi2", "id", FALSE, 210500, -1, 187500, 0>> :> <<32279, 0>>)
    @@ (<<"f", "id", FALSE, 210500, -1, 187500, 2500000>> :> <<14530, 0>>)
    @@ (<<"f", "id", FALSE, 210500, -1, 187500, 1875000>> :> <<15180, 0>>)
    @@ (<<"norm", "id", TRUE, 3999500, 0, 0, 0>> :> <<0, 0>>)
    @@ (<<"t", "id", TRUE, 3999500, 0, 2000000, 0>> :> <<0, 1>>)
    @@ (<<"t", "r2t", TRUE, 3999500, 0, 2000000, 0>> :> <<12, 0>>)
    @@ (<<"t", "id", TRUE, 3999500, 0, 250000, 0>> :> <<7, 0>>)
    @@ (<<"t", "r2t", TRUE, 3999500, 0, 250000, 0>> :> <<11473, 0>>)
    @@ (<<"t", "id", TRUE, 3999500, 0, 1500000, 0>> :> <<0, 1>>)
    @@ (<<"t", "r2t", TRUE, 3999500, 0, 1500000, 0>> :> <<75, 0>>)
    @@ (<<"t", "id", TRUE, 3999500, 0, 187500, 0>> :> <<46, 0>>)
    @@ (<<"t", "r2t", TRUE, 3999500, 0, 187500, 0>> :> <<15589, 0>>)
    @@ (<<"norm", "id", FALSE, 3999500, 0, 0, 0>> :> <<0, 0>>)
    @@ (<<"t", "id", FALSE, 3999500, 0, 2000000, 0>> :> <<0, 1>>)
    @@ (<<"t", "id", FALSE, 3999500, 0, 250000, 0>> :> <<7, 0>>)
    @@ (<<"t", "id", FALSE, 3999500, 0, 1500000, 0>> :> <<0, 1>>)
    @@ (<<"t", "id", FALSE, 3999500, 0, 187500, 0>> :> <<46, 0>>)
    @@ (<<"chi2", "id", FALSE, 3999500, 0, 2000000, 0>> :> <<500, 0>>)
    @@ (<<"f", "id", FALSE, 3999500, 0, 2000000, 2500000>> :> <<0, 1>>)
    @@ (<<"f", "id", FALSE, 3999500, 0, 2000000, 1875000>> :> <<0, 1>>)
    @@ (<<"chi2", "id", FALSE, 3999500, 0, 250000, 0>> :> <<0, 1>>)
    @@ (<<"f", "id", FALSE, 3999500, 0, 250000, 2500000>> :> <<0, 1>>)
    @@ (<<"f", "id", FALSE, 3999500, 0, 250000, 1875000>> :> <<0, 1>>)
    @@ (<<"chi2", "id", FALSE, 3999500, 0, 1500000, 0>> :> <<45, 0>>)
    @@ (<<"f", "id", FALSE, 3999500, 0, 1500000, 2500000>> :> <<0, 1>>)
    @@ (<<"f", "id", FALSE, 3999500, 0, 1500000, 1875000>> :> <<0, 1>>)
    @@ (<<"chi2", "id", FALSE, 3999500, 0, 187500, 0>> :> <<0, 1>>)
    @@ (<<"f", "id", FALSE, 3999500, 0, 187500, 2500000>> :> <<0, 1>>)
    @@ (<<"f", "id", FALSE, 3999500, 0, 187500, 1875000>> :> <<0, 1>>)
    @@ (<<"norm", "id", TRUE, 4000500, -1, 0, 0>> :> <<0, 0>>)
    @@ (<<"t", "id", TRUE, 4000500, -1, 2000000, 0>> :> <<0, 1>>)
    @@ (<<"t", "r2t", TRUE, 4000500, -1, 2000000, 0>> :> <<12, 0>>)
    @@ (<<"t", "id", TRUE, 4000500, -1, 250000, 0>> :> <<7, 0>>)
    @@ (<<"t", "r2t", TRUE, 4000500, -1, 250000, 0>> :> <<11473, 0>>)
    @@ (<<"t", "id", TRUE, 4000500, -1, 1500000, 0>> :> <<0, 1>>)
    @@ (<<"t", "r2t", TRUE, 4000500, -1, 1500000, 0>> :> <<75, 0>>)
    @@ (<<"t", "id", TRUE, 4000500, -1, 187500, 0>> :> <<46, 0>>)
    @@ (<<"t", "r2t", TRUE, 4000500, -1, 187500, 0>> :> <<15589, 0>>)
    @@ (<<"norm", "id", FALSE, 4000500, -1, 0, 0>> :> <<0, 0>>)
    @@ (<<"t", "id", FALSE, 4000500, -1, 2000000, 0>> :> <<0, 1>>)
    @@ (<<"t", "id", FALSE, 4000500, -1, 250000, 0>> :> <<7, 0>>)
    @@ (<<"t", "id", FALSE, 4000500, -1, 1500000, 0>> :> <<0, 1>>)
    @@ (<<"t", "id", FALSE, 4000500, -1, 187500, 0>> :> <<46, 0>>)
    @@ (<<"chi2", "id", FALSE, 4000500, -1, 2000000, 0>> :> <<499, 0>>)
    @@ (<<"f", "id", FALSE, 4000500, -1, 2000000, 2500000>> :> <<0, 1>>)
    @@ (<<"f", "id", FALSE, 4000500, -1, 2000000, 1875000>> :> <<0, 1>>)
    @@ (<<"chi2", "id", FALSE, 4000500, -1, 250000, 0>> :> <<0, 1>>)
    @@ (<<"f", "id", FALSE, 4000500, -1, 250000, 2500000>> :> <<0, 1>>)
    @@ (<<"f", "id", FALSE, 4000500, -1, 250000, 1875000>> :> <<0, 1>>)
    @@ (<<"chi2", "id", FALSE, 4000500, -1, 1500000, 0>> :> <<45, 0>>)
    @@ (<<"f", "id", FALSE, 4000500, -1, 1500000, 2500000>> :> <<0, 1>>)
    @@ (<<"f", "id", FALSE, 4000500, -1, 1500000, 1875000>> :> <<0, 1>>)
    @@ (<<"chi2", "id", FALSE, 4000500, -1, 187500, 0>> :> <<0, 1>>)
    @@ (<<"f", "id", FALSE, 4000500, -1, 187500, 2500000>> :> <<0, 1>>)
    @@ (<<"f", "id", FALSE, 4000500, -1, 187500, 1875000>> :> <<0, 1>>)

Sf(c) ==
    LET p == SfTable[<<c.dist, c.conv, c.abs, c.x.v, c.x.e, c.dfn, c.dfd>>]
    IN  Num(p[1], p[2])

\* ------------------------------------------------------------------------
\* Statcheck core calculations
\* ------------------------------------------------------------------------
SIGNIFICANCE_LEVEL == 5000

get_decimal_places(value_str) == IF value_str.dot THEN value_str.frac ELSE 0

\* 0.5 * 10 ** (-decimal_places), in units of 1e-5 (decimal_places <= 4).
RoundingIncrement(decimal_places) == 5 * 10^(4 - decimal_places)

\* epsilon * df, both in units of 1e-5 (exact for the model's two-decimal values).
Times(a, b) == ((a \div 100) * (b \div 100)) \div 10

\* A p-value range: (None, None) when none is TRUE, else (lo, hi).
NoRange == [none |-> TRUE, lo |-> Zero, hi |-> Zero]
Range(lo, hi) == [none |-> FALSE, lo |-> lo, hi |-> hi]

\* The tolerance window compare_p_values builds around the reported value
\* for operator "=".
ReportedWindow(reported_value) ==
    LET decimal_places == get_decimal_places(Str(PyFloat(reported_value)))
        rounding_increment == RoundingIncrement(decimal_places)
    IN  << Num(reported_value - rounding_increment, 0),
           Num(reported_value + rounding_increment, -1) >>

\* A faulty variant of compare_p_values: "<" taken as "<=".
compare_p_values_Leq(recalculated_p_value_range, operator, reported_value) ==
    LET p_value_lower == recalculated_p_value_range.lo
        p_value_upper == recalculated_p_value_range.hi
        reported_p_lower == ReportedWindow(reported_value)[1]
        reported_p_upper == ReportedWindow(reported_value)[2]
    IN  CASE operator = "<" -> NumLeq(p_value_lower, Num(reported_value, 0))
          [] operator = ">" -> NumLess(Num(reported_value, 0), p_value_upper)
          [] operator = "=" -> /\ NumLeq(p_value_lower, reported_p_upper)
                               /\ NumLeq(reported_p_lower, p_value_upper)
          [] OTHER -> FALSE

compare_p_values(recalculated_p_value_range, operator, reported_value) ==
    LET p_value_lower == recalculated_p_value_range.lo
        p_value_upper == recalculated_p_value_range.hi
        reported_p_lower == ReportedWindow(reported_value)[1]
        reported_p_upper == ReportedWindow(reported_value)[2]
    IN  CASE operator = "<" -> NumLess(p_value_lower, Num(reported_value, 0))
          [] operator = ">" -> NumLess(Num(reported_value, 0), p_value_upper)
          [] operator = "=" -> /\ NumLeq(p_value_lower, reported_p_upper)
                               /\ NumLeq(reported_p_lower, p_value_upper)
          [] OTHER -> FALSE    \* falls off the end: None, which is falsy

\* What calculate_p_value returns, (consistent, (lower, upper)), and for the
\* record the window it built around the test statistic, the
\* survival-function calls it made (both empty when it returned before
\* making them) and whether it went on to compare_p_values.
Outcome(consistent, range, window, calls, compared) ==
    [consistent |-> consistent, range |-> range, window |-> window, calls |-> calls,
     compared |-> compared]

\* A faulty variant of SfCalls: the t-test passes the bounds without abs().
SfCalls_NoAbs(test_type, df1, df2, epsilon, lower_test_value, upper_test_value) ==
    CASE test_type = "r" ->
           << SfCall("t", "r2t", TRUE, lower_test_value, df1.v, 0),
              SfCall("t", "r2t", TRUE, upper_test_value, df1.v, 0) >>
      [] test_type = "t" ->
           << SfCall("t", "id", FALSE, lower_test_value, df1.v, 0),
              SfCall("t", "id", FALSE, upper_test_value, df1.v, 0) >>
      [] test_type = "f" ->
           IF ~IsNone(epsilon) /\ df1.ty = "int" /\ df2.ty = "int"
           THEN << SfCall("f", "id", FALSE, lower_test_value, Times(epsilon.v, df1.v), Times(epsilon.v, df2.v)),
                   SfCall("f", "id", FALSE, upper_test_value, Times(epsilon.v, df1.v), Times(epsilon.v, df2.v)) >>
           ELSE << SfCall("f", "id", FALSE, lower_test_value, df1.v, df2.v),
                   SfCall("f", "id", FALSE, upper_test_value, df1.v, df2.v) >>
      [] test_type = "chi2" ->
           << SfCall("chi2", "id", FALSE, lower_test_value, df1.v, 0),
              SfCall("chi2", "id", FALSE, upper_test_value, df1.v, 0) >>
      [] test_type = "z" ->
           << SfCall("norm", "id", TRUE, lower_test_value, 0, 0),
              SfCall("norm", "id", TRUE, upper_test_value, 0, 0) >>
      [] OTHER -> << >>

\* The two survival-function calls of a test type, <<>> for an unknown type.
SfCalls(test_type, df1, df2, epsilon, lower_test_value, upper_test_value) ==
    CASE test_type = "r" ->
           << SfCall("t", "r2t", TRUE, lower_test_value, df1.v, 0),
              SfCall("t", "r2t", TRUE, upper_test_value, df1.v, 0) >>
      [] test_type = "t" ->
           << SfCall("t", "id", TRUE, lower_test_value, df1.v, 0),
              SfCall("t", "id", TRUE, upper_test_value, df1.v, 0) >>
      [] test_type = "f" ->
           IF ~IsNone(epsilon) /\ df1.ty = "int" /\ df2.ty = "int"
           THEN << SfCall("f", "id", FALSE, lower_test_value, Times(epsilon.v, df1.v), Times(epsilon.v, df2.v)),
                   SfCall("f", "id", FALSE, upper_test_value, Times(epsilon.v, df1.v), Times(epsilon.v, df2.v)) >>
           ELSE << SfCall("f", "id", FALSE, lower_test_value, df1.v, df2.v),
                   SfCall("f", "id", FALSE, upper_test_value, df1.v, df2.v) >>
      [] test_type = "chi2" ->
           << SfCall("chi2", "id", FALSE, lower_test_value, df1.v, 0),
              SfCall("chi2", "id", FALSE, upper_test_value, df1.v, 0) >>
      [] test_type = "z" ->
           << SfCall("norm", "id", TRUE, lower_test_value, 0, 0),
              SfCall("norm", "id", TRUE, upper_test_value, 0, 0) >>
      [] OTHER -> << >>

\* The window around the test statistic.
TestValueWindow(test_value) ==
    LET decimal_places == Max(get_decimal_places(Str(test_value)), 2)
        rounding_increment == RoundingIncrement(decimal_places)
    IN  << Num(test_value.v - rounding_increment, 0),
           Num(test_value.v + rounding_increment, -1) >>

\* A faulty variant of TailAdjust: every tail but "two" is taken as one-tailed.
TailAdjust_AnyTail(test_type, tail, p) ==
    IF test_type \notin {"chi2", "f"} /\ tail = "two"
    THEN [ok |-> TRUE, p |-> NumMin(NumDouble(p), One)]
    ELSE [ok |-> TRUE, p |-> p]

\* A faulty variant of TailAdjust: the tail is applied to every test type.
TailAdjust_AllTypes(test_type, tail, p) ==
    IF tail = "two" THEN [ok |-> TRUE, p |-> NumMin(NumDouble(p), One)]
    ELSE IF tail # "one" THEN [ok |-> FALSE, p |-> p]
    ELSE [ok |-> TRUE, p |-> p]

\* Doubling for two-tailed r, t and z tests: [ok, p]; ok = FALSE for a tail
\* that is neither "two" nor "one".
TailAdjust(test_type, tail, p) ==
    IF test_type \notin {"chi2", "f"}
    THEN IF tail = "two" THEN [ok |-> TRUE, p |-> NumMin(NumDouble(p), One)]
         ELSE IF tail # "one" THEN [ok |-> FALSE, p |-> p]
         ELSE [ok |-> TRUE, p |-> p]
    ELSE [ok |-> TRUE, p |-> p]

calculate_p_value(test_type, df1, df2, test_value, operator, reported_p_value, epsilon, tail) ==
    IF \/ (test_type \in {"t", "r", "chi2"} /\ IsNone(df1))
       \/ (test_type = "f" /\ (IsNone(df1) \/ IsNone(df2)))
    THEN Outcome(FALSE, NoRange, << >>, << >>, FALSE)
    ELSE
    LET window == TestValueWindow(test_value)
        calls == SfCalls(test_type, df1, df2, epsilon, window[1], window[2])
    IN  IF calls = << >>
        THEN Outcome(FALSE, NoRange, window, calls, FALSE)
        ELSE
        LET p_lower == TailAdjust(test_type, tail, Sf(calls[1]))
            p_upper == TailAdjust(test_type, tail, Sf(calls[2]))
            p_value_lower == NumMin(p_lower.p, p_upper.p)
            p_value_upper == NumMax(p_lower.p, p_upper.p)
            range == Range(p_value_lower, p_value_upper)
            reported == ToFloat(reported_p_value)
        IN  IF ~p_lower.ok
            THEN Outcome(FALSE, NoRange, window, calls, FALSE)
            ELSE IF reported_p_value = PyStr("ns")
            THEN Outcome(FALSE, range, window, calls, FALSE)
            ELSE IF ~reported.ok
            THEN Outcome(FALSE, NoRange, window, calls, FALSE)
            ELSE Outcome(compare_p_values(range, operator, reported.v), range, window, calls, TRUE)

\* A faulty variant of determine_reported_significance: "=" and "<" compare
\* strictly, as ">" does.
determine_reported_significance_Strict(operator, reported_p_value, significance_level) ==
    LET reported == ToFloat(reported_p_value)
    IN  IF reported_p_value = PyStr("ns") THEN None
        ELSE IF ~reported.ok THEN None
        ELSE IF operator \in {"=", "<", ">"}
        THEN IF reported.v < significance_level THEN "True" ELSE "False"
        ELSE None

\* True, False or None (Python's bool | None), as strings.
determine_reported_significance(operator, reported_p_value, significance_level) ==
    LET reported == ToFloat(reported_p_value)
    IN  IF reported_p_value = PyStr("ns") THEN None
        ELSE IF ~reported.ok THEN None
        ELSE IF operator \in {"=", "<"}
        THEN IF reported.v <= significance_level THEN "True" ELSE "False"
        ELSE IF operator = ">"
        THEN IF reported.v < significance_level THEN "True" ELSE "False"
        ELSE None

\* A faulty variant of determine_recalculated_significance: the bounds
\* themselves count as beyond the threshold.
determine_recalculated_significance_Leq(p_value_range, significance_level) ==
    IF NumLeq(p_value_range.hi, Num(significance_level, 0)) THEN "True"
    ELSE IF NumLeq(Num(significance_level, 0), p_value_range.lo) THEN "False"
    ELSE None

determine_recalculated_significance(p_value_range, significance_level) ==
    IF NumLess(p_value_range.hi, Num(significance_level, 0)) THEN "True"
    ELSE IF NumLess(Num(significance_level, 0), p_value_range.lo) THEN "False"
    ELSE None


\* ------------------------------------------------------------------------
\* One iteration of the statcheck loop: the row of a test
\* ------------------------------------------------------------------------
\* A test as the loop reads it with test.get(...): an absent key and an
\* explicit None both read as None.
Test(test_type, df1, df2, test_value, operator, reported_p_value, epsilon, tail) ==
    [test_type |-> test_type, df1 |-> df1, df2 |-> df2, test_value |-> test_value,
     operator |-> operator, reported_p_value |-> reported_p_value,
     epsilon |-> epsilon, tail |-> tail]

Note(text, arg) == [text |-> text, arg |-> arg]
NoteNs == Note("Reported as ns.", 0)
NoteRNoDf == Note("Correlation test requires degrees of freedom (df1). None provided.", 0)
NoteZero == Note("A p-value is never exactly 0.", 0)
NoteFNoDf2 == Note("F-test requires two DF. Only one DF provided.", 0)
NoteGross == Note("Gross inconsistency: reported p-value and recalculated p-value differ in significance.", 0)
NoteMismatch == Note("Recalculated p-value does not match the reported p-value.", 0)
NoteOneTailed == Note("Consistent for one-tailed, inconsistent for two-tailed.", 0)
NoteHuynhFeldt(epsilon) ==
    Note("Degrees of freedom were adjusted due to a Huynh-Feldt correction. Epsilon = {epsilon}.", epsilon.v)
NoteDash == Note("-", 0)

\* "APA Reporting": type, then the degrees of freedom in parentheses (paren),
\* " = " and the value, then ", ns" (ns).
Apa(test_type, paren, dfs, value, ns) ==
    [test_type |-> test_type, paren |-> paren, dfs |-> dfs, value |-> value, ns |-> ns]

\* f"{df1}{', ' + str(df2) if df2 is not None else ''}"
DfTexts(df1, df2) == << Str(df1) >> \o (IF ~IsNone(df2) THEN << Str(df2) >> ELSE << >>)

\* "Reported P-value": f"{operator} {reported_p_value}", or "ns".
ReportedText(operator, reported_p_value) ==
    IF reported_p_value # PyStr("ns")
    THEN [operator |-> operator, p |-> Str(reported_p_value)]
    ELSE [operator |-> "", p |-> Str(reported_p_value)]

\* "Valid P-value Range": "N/A", or f"{lower:.5f} to {upper:.5f}".
RangeNA == [na |-> TRUE, lower |-> 0, upper |-> 0]
RangeText(lower, upper) == [na |-> FALSE, lower |-> lower.v, upper |-> upper.v]

\* bool(x) of a float or None.
Truthy(p) == p.v # 0 \/ p.e # 0
AllOfRange(p_value_range) ==
    ~p_value_range.none /\ Truthy(p_value_range.lo) /\ Truthy(p_value_range.hi)

Row(consistent_str, apa_reporting, reported, valid_p_value_range_str, notes) ==
    [Consistent |-> consistent_str, APA |-> apa_reporting, Reported |-> reported,
     Range |-> valid_p_value_range_str, Notes |-> notes]

\* What one iteration did besides its row: whether the general pipeline ran,
\* what calculate_p_value returned, the two significance verdicts, and the
\* one-tailed second call when it was made.
NoOutcome == Outcome(FALSE, NoRange, << >>, << >>, FALSE)
Eval(general, out, reported_significant, recalculated_significant, fallback, out_one) ==
    [general |-> general, out |-> out, reported_significant |-> reported_significant,
     recalculated_significant |-> recalculated_significant,
     fallback |-> fallback, out_one |-> out_one]
NoEval == Eval(FALSE, NoOutcome, None, None, FALSE, NoOutcome)

HuynhFeldtApplies(test) ==
    /\ test.test_type = "f"
    /\ ~IsNone(test.epsilon)
    /\ test.df1.ty = "int"
    /\ test.df2.ty = "int"

\* reported_p_value == 0
ReportedIsZero(reported_p_value) == IsNumber(reported_p_value) /\ reported_p_value.v = 0

\* A faulty variant of NsRow: the row shows the range calculate_p_value
\* computes for the test.
NsRow_WithRange(test) ==
    LET out == calculate_p_value(test.test_type, test.df1, test.df2, test.test_value,
                   test.operator, test.reported_p_value,
                   IF HuynhFeldtApplies(test) THEN test.epsilon ELSE PyNone,
                   test.tail)
    IN  Row("Cannot determine",
            Apa(test.test_type, TRUE, DfTexts(test.df1, test.df2), Str(test.test_value), TRUE),
            ReportedText(test.operator, test.reported_p_value),
            IF AllOfRange(out.range) THEN RangeText(out.range.lo, out.range.hi) ELSE RangeNA,
            << NoteNs >>)

NsRow(test) ==
    Row("Cannot determine",
        Apa(test.test_type, TRUE, DfTexts(test.df1, test.df2), Str(test.test_value), TRUE),
        ReportedText(test.operator, test.reported_p_value),
        RangeNA,
        << NoteNs >>)

RNoDfRow(test) ==
    Row("Cannot determine",
        Apa(test.test_type, FALSE, << >>, Format2f(test.test_value), FALSE),
        ReportedText(test.operator, test.reported_p_value),
        RangeNA,
        << NoteRNoDf >>)

GeneralEval(test) ==
    LET out == calculate_p_value(test.test_type, test.df1, test.df2, test.test_value,
                   test.operator, test.reported_p_value,
                   IF HuynhFeldtApplies(test) THEN test.epsilon ELSE PyNone,
                   test.tail)
        consistent == out.consistent /\ ~ReportedIsZero(test.reported_p_value)
        fallback == test.test_type \in {"t", "z", "r"} /\ ~consistent /\ test.tail = "two"
    IN  Eval(TRUE, out,
             determine_reported_significance(test.operator, test.reported_p_value, SIGNIFICANCE_LEVEL),
             IF ~out.range.none
             THEN determine_recalculated_significance(out.range, SIGNIFICANCE_LEVEL)
             ELSE None,
             fallback,
             IF fallback
             THEN calculate_p_value(test.test_type, test.df1, test.df2, test.test_value,
                      test.operator, test.reported_p_value, PyNone, "one")
             ELSE NoOutcome)

\* A faulty variant of ConsistentStr: a disagreement of the two significance
\* verdicts makes the verdict "No".
ConsistentStr_GrossIsNo(test, ev) ==
    IF ev.out.range.none /\ test.test_type = "f" /\ IsNone(test.df2)
    THEN "Cannot determine"
    ELSE IF /\ ev.out.consistent
            /\ ~(/\ ev.reported_significant # None
                  /\ ev.recalculated_significant # None
                  /\ ev.reported_significant # ev.recalculated_significant)
    THEN "Yes" ELSE "No"

\* The verdict column: set from calculate_p_value's answer, before the
\* exact-zero override changes consistent.
ConsistentStr(test, ev) ==
    IF ev.out.range.none /\ test.test_type = "f" /\ IsNone(test.df2)
    THEN "Cannot determine"
    ELSE IF ev.out.consistent THEN "Yes" ELSE "No"

GeneralNotes(test, ev) ==
    LET gross_inconsistency ==
            /\ ev.reported_significant # None
            /\ ev.recalculated_significant # None
            /\ ev.reported_significant # ev.recalculated_significant
        consistent == ev.out.consistent /\ ~ReportedIsZero(test.reported_p_value)
    IN  (IF ReportedIsZero(test.reported_p_value) THEN << NoteZero >> ELSE << >>)
        \o (IF ev.out.range.none /\ test.test_type = "f" /\ IsNone(test.df2)
            THEN << NoteFNoDf2 >>
            ELSE IF ~consistent
            THEN IF gross_inconsistency THEN << NoteGross >> ELSE << NoteMismatch >>
            ELSE << >>)
        \o (IF ev.fallback /\ ev.out_one.consistent THEN << NoteOneTailed >> ELSE << >>)
        \o (IF HuynhFeldtApplies(test) THEN << NoteHuynhFeldt(test.epsilon) >> ELSE << >>)

GeneralApa(test) ==
    IF HuynhFeldtApplies(test)
    THEN Apa(test.test_type, TRUE,
             << Str(PyFloat(RoundTo(Times(test.epsilon.v, test.df1.v), 1000))),
                Str(PyFloat(RoundTo(Times(test.epsilon.v, test.df2.v), 1000))) >>,
             Format2f(test.test_value), FALSE)
    ELSE IF ~IsNone(test.df1)
    THEN Apa(test.test_type, TRUE, DfTexts(test.df1, test.df2), Format2f(test.test_value), FALSE)
    ELSE Apa(test.test_type, FALSE, << >>, Format2f(test.test_value), FALSE)

GeneralRow(test, ev) ==
    LET notes_list == GeneralNotes(test, ev)
    IN  Row(ConsistentStr(test, ev),
            GeneralApa(test),
            ReportedText(test.operator, test.reported_p_value),
            IF AllOfRange(ev.out.range)
            THEN RangeText(ev.out.range.lo, ev.out.range.hi)
            ELSE RangeNA,
            IF notes_list = << >> THEN << NoteDash >> ELSE notes_list)

\* Incomplete entries are skipped without a row.
Skipped(test) == IsNone(test.reported_p_value) \/ IsNone(test.test_value)

EvalOf(test) ==
    IF test.reported_p_value = PyStr("ns") THEN NoEval
    ELSE IF test.test_type = "r" /\ IsNone(test.df1) THEN NoEval
    ELSE GeneralEval(test)

\* A faulty variant of RowOf: a correlation without df1 is not set apart.
RowOf_NoDfCheck(test, ev) ==
    IF test.reported_p_value = PyStr("ns") THEN NsRow(test)
    ELSE GeneralRow(test, ev)

RowOf(test, ev) ==
    IF test.reported_p_value = PyStr("ns") THEN NsRow(test)
    ELSE IF test.test_type = "r" /\ IsNone(test.df1) THEN RNoDfRow(test)
    ELSE GeneralRow(test, ev)


\* ------------------------------------------------------------------------
\* Inputs: what the language model may answer for a segment
\* ------------------------------------------------------------------------
MaxSegments == 2
MaxTests == 3

LitTest(test_type, df1, df2, test_value, operator, reported_p_value, epsilon, tail) ==
    [test_type |-> test_type, df1 |-> df1, df2 |-> df2, test_value |-> test_value,
     operator |-> operator, reported_p_value |-> reported_p_value,
     epsilon |-> epsilon, tail |-> tail]

\* "b" is a test type the prompt names as unsupported (B(31,801) = -.030).
TestTypes == {"r", "t", "f", "chi2", "z", "b"}
Df1Lits == {LitNone, LitNum(20, 0), LitNum(25, 1)}                   \* None, 20, 2.5
Df2Lits == {LitNone, LitNum(25, 0)}                                   \* None, 25
TestValueLits == {LitNone, LitNum(21, 1), LitNum(210, 2), LitNum(2100, 3),
                  LitNum(196, 2), LitNum(-45, 2), LitNum(40, 0)}      \* None, 2.1, 2.10, 2.100, 1.96, -0.45, 40
Operators == {"=", "<", ">"}
ReportedLits == {LitNone, LitStr("ns"), LitStr("abc"), LitNum(0, 0), LitNum(5, 2),
                 LitNum(5, 1), LitNum(1, 3), LitNum(1, 5)}            \* None, 'ns', 'abc', 0, 0.05, 0.5, 0.001, 0.00001
EpsilonLits == {LitNone, LitNum(75, 2)}                               \* None, 0.75
Tails == {None, "one", "two", "left"}

LitTests ==
    [test_type : TestTypes, df1 : Df1Lits, df2 : Df2Lits, test_value : TestValueLits,
     operator : Operators, reported_p_value : ReportedLits, epsilon : EpsilonLits,
     tail : Tails]

\* A few tests for batches: complete and consistent, reported as ns,
\* uncomputable (no df1), a correlation without df1, and two incomplete ones.
BatchTests ==
    { LitTest("t", LitNum(20, 0), LitNone, LitNum(210, 2), "=", LitNum(5, 2), LitNone, "two"),
      LitTest("chi2", LitNum(20, 0), LitNone, LitNum(210, 2), "<", LitStr("ns"), LitNone, "two"),
      LitTest("t", LitNone, LitNone, LitNum(210, 2), "=", LitNum(5, 2), LitNone, "two"),
      LitTest("r", LitNone, LitNone, LitNum(-45, 2), "=", LitNum(1, 3), LitNone, "two"),
      LitTest("f", LitNum(20, 0), LitNum(25, 0), LitNum(210, 2), "=", LitNone, LitNone, None),
      LitTest("t", LitNum(20, 0), LitNone, LitNone, "=", LitNum(5, 2), LitNone, "two") }

\* extract_data_from_text's answer for one segment: None (the answer did not
\* start with "tests ="), text that ast.literal_eval rejects, or a list of tests.
ResponseNone == [kind |-> "none", tests |-> << >>]
ResponseBad == [kind |-> "bad", tests |-> << >>]
ResponseTests(tests) == [kind |-> "tests", tests |-> tests]

SeqsUpTo(S, n) == UNION { [1..k -> S] : k \in 0..n }

\* ast.literal_eval of one test of the answer.
ParseTest(lit) ==
    Test(lit.test_type, LiteralEval(lit.df1), LiteralEval(lit.df2), LiteralEval(lit.test_value),
         lit.operator, LiteralEval(lit.reported_p_value), LiteralEval(lit.epsilon), lit.tail)

\* == of two values: an int and a float of the same value are equal.
PyEq(a, b) == IF IsNumber(a) /\ IsNumber(b) THEN a.v = b.v ELSE a = b

\* == of two test dicts.
TestEq(a, b) ==
    /\ a.test_type = b.test_type /\ a.operator = b.operator /\ a.tail = b.tail
    /\ PyEq(a.df1, b.df1) /\ PyEq(a.df2, b.df2) /\ PyEq(a.test_value, b.test_value)
    /\ PyEq(a.reported_p_value, b.reported_p_value) /\ PyEq(a.epsilon, b.epsilon)

\* A faulty variant of AppendTests: a test equal to any test collected
\* before it is skipped.
RECURSIVE AppendTests_AnyEarlier(_, _)
AppendTests_AnyEarlier(collected, tests) ==
    IF tests = << >> THEN collected
    ELSE IF \E i \in 1..Len(collected) : TestEq(Head(tests), collected[i])
    THEN AppendTests_AnyEarlier(collected, Tail(tests))
    ELSE AppendTests_AnyEarlier(Append(collected, Head(tests)), Tail(tests))

\* for test in tests: skip a test equal to the last one collected, else append it.
RECURSIVE AppendTests(_, _)
AppendTests(collected, tests) ==
    IF tests = << >> THEN collected
    ELSE IF collected # << >> /\ TestEq(Head(tests), collected[Len(collected)])
    THEN AppendTests(collected, Tail(tests))
    ELSE AppendTests(Append(collected, Head(tests)), Tail(tests))

ParseTests(lits) == [k \in 1..Len(lits) |-> ParseTest(lits[k])]

\* ------------------------------------------------------------------------
\* perform_statcheck_test as a state machine
\* ------------------------------------------------------------------------
\* n_segments is len(file_context); extracted is the history of every test
\* the answers held, as written, in order; loc holds the locals of the
\* statcheck loop that outlive an iteration and that the row is built from.
VARIABLES n_segments, extracted, loc

\* main of main_multiple_runs.py: run is the number of the next run (i + 1),
\* results_list the CSV texts of the runs that returned a DataFrame, outputs
\* the history of what every run returned, printed what main reports.
VARIABLES run, results_list, outputs, printed

mainvars == <<run, results_list, outputs, printed>>

\* A function of StatcheckTester called on its own: call holds its
\* arguments, ret what it returned (Pending before it has returned).
VARIABLES call, ret

callvars == <<call, ret>>

Pending == "pending"
NoCall == call = << >> /\ ret = Pending

allvars == <<vars, n_segments, extracted, loc, mainvars, callvars>>

Locals(notes_list, apa_reporting, consistent_str, valid_p_value_range_str) ==
    [notes_list |-> notes_list, apa_reporting |-> apa_reporting,
     consistent_str |-> consistent_str, valid_p_value_range_str |-> valid_p_value_range_str]

\* Before the first iteration none of them is bound.
NoLocals == Locals(<< >>, Apa("", FALSE, << >>, Text(None, 0, FALSE, 0), FALSE), "", RangeNA)

\* A faulty variant of AssignLocals: the general branch does not start from
\* an empty notes_list.
AssignLocals_NoReset(locals, test, ev) ==
    LET row == RowOf(test, ev)
        notes == IF row.Notes = << NoteDash >> THEN << >> ELSE row.Notes
    IN  [locals EXCEPT !.notes_list = IF ev.general THEN locals.notes_list \o notes ELSE notes,
                       !.apa_reporting = row.APA,
                       !.consistent_str = row.Consistent,
                       !.valid_p_value_range_str = row.Range]

\* The assignments of one iteration that appends a row: each of the three
\* branches binds all four locals anew.
AssignLocals(locals, test, ev) ==
    LET row == RowOf(test, ev)
    IN  [locals EXCEPT !.notes_list = IF row.Notes = << NoteDash >> THEN << >> ELSE row.Notes,
                       !.apa_reporting = row.APA,
                       !.consistent_str = row.Consistent,
                       !.valid_p_value_range_str = row.Range]

\* The dict appended to statcheck_results, read from the locals.
RowFromLocals(test, locals) ==
    Row(locals.consistent_str, locals.apa_reporting,
        ReportedText(test.operator, test.reported_p_value),
        locals.valid_p_value_range_str,
        IF locals.notes_list = << >> THEN << NoteDash >> ELSE locals.notes_list)

InitWith(segments) ==
    /\ n_segments \in segments
    /\ responses = << >>
    /\ extracted = << >>
    /\ seg = 1
    /\ all_tests = << >>
    /\ pc = "extract"
    /\ t = 1
    /\ statcheck_results = << >>
    /\ row_src = << >>
    /\ evals = << >>
    /\ result = None
    /\ loc = NoLocals
    /\ run = 1
    /\ results_list = << >>
    /\ outputs = << >>
    /\ printed = << >>

\* One iteration of the extraction loop, for an answer drawn from answers.
ExtractSegment(answers) ==
    /\ pc = "extract"
    /\ seg <= n_segments
    /\ \E response \in answers :
         /\ Len(extracted) + Len(response.tests) <= MaxTests
         /\ responses' = Append(responses, response.kind)
         /\ extracted' = extracted \o response.tests
         /\ all_tests' = IF response.kind = "tests"
                         THEN AppendTests(all_tests, ParseTests(response.tests))
                         ELSE all_tests
    /\ seg' = seg + 1
    /\ UNCHANGED <<pc, t, statcheck_results, row_src, evals, result, n_segments, loc, mainvars, callvars>>

\* The extraction loop is over: return None without tests, else start the
\* statcheck loop.
FinishExtraction ==
    /\ pc = "extract"
    /\ seg > n_segments
    /\ pc' = IF all_tests = << >> THEN "done" ELSE "check"
    /\ UNCHANGED <<responses, extracted, seg, all_tests, t, statcheck_results,
                   row_src, evals, result, n_segments, loc, mainvars, callvars>>

\* A faulty variant of CheckTest: a test whose range cannot be computed ends
\* the loop.
CheckTest_Aborts ==
    /\ pc = "check"
    /\ t <= Len(all_tests)
    /\ LET test == all_tests[t]
           ev == EvalOf(test)
       IN  IF Skipped(test)
           THEN /\ t' = t + 1
                /\ UNCHANGED <<statcheck_results, row_src, evals, pc, loc>>
           ELSE IF ev.general /\ ev.out.range.none
           THEN /\ pc' = "done"
                /\ UNCHANGED <<statcheck_results, row_src, evals, t, loc>>
           ELSE /\ loc' = AssignLocals(loc, test, ev)
                /\ statcheck_results' = Append(statcheck_results, RowFromLocals(test, loc'))
                /\ row_src' = Append(row_src, t)
                /\ evals' = Append(evals, ev)
                /\ t' = t + 1
                /\ UNCHANGED pc
    /\ UNCHANGED <<responses, extracted, seg, all_tests, result, n_segments, mainvars, callvars>>

\* One iteration of the statcheck loop.
CheckTest ==
    /\ pc = "check"
    /\ t <= Len(all_tests)
    /\ LET test == all_tests[t]
           ev == EvalOf(test)
       IN  IF Skipped(test)
           THEN UNCHANGED <<statcheck_results, row_src, evals, loc>>
           ELSE /\ loc' = AssignLocals(loc, test, ev)
                /\ statcheck_results' = Append(statcheck_results, RowFromLocals(test, loc'))
                /\ row_src' = Append(row_src, t)
                /\ evals' = Append(evals, ev)
    /\ t' = t + 1
    /\ UNCHANGED <<responses, extracted, seg, all_tests, pc, result, n_segments, mainvars, callvars>>

\* The statcheck loop is over: return the rows as a DataFrame, or None.
ReturnResults ==
    /\ pc = "check"
    /\ t > Len(all_tests)
    /\ pc' = "done"
    /\ result' = IF statcheck_results # << >> THEN "DataFrame" ELSE None
    /\ UNCHANGED <<responses, extracted, seg, all_tests, t, statcheck_results,
                   row_src, evals, n_segments, loc, mainvars, callvars>>

\* Batches: up to MaxSegments segments, up to MaxTests tests in all, drawn
\* from BatchTests.
BatchAnswers ==
    {ResponseNone, ResponseBad} \cup { ResponseTests(ts) : ts \in SeqsUpTo(BatchTests, MaxTests) }

Init == InitWith(0..MaxSegments) /\ NoCall

Next ==
    \/ ExtractSegment(BatchAnswers)
    \/ FinishExtraction
    \/ CheckTest
    \/ ReturnResults

Spec == Init /\ [][Next]_allvars

\* Single tests: one segment whose answer holds one test, any of LitTests.
RecordAnswers == { ResponseTests(<< lit >>) : lit \in LitTests }

InitRecord == InitWith({1}) /\ NoCall

NextRecord ==
    \/ ExtractSegment(RecordAnswers)
    \/ FinishExtraction
    \/ CheckTest
    \/ ReturnResults

SpecRecord == InitRecord /\ [][NextRecord]_allvars

\* ------------------------------------------------------------------------
\* main of main_multiple_runs.py: three runs on the same segments
\* ------------------------------------------------------------------------
Runs == 3

\* What a run returned: None, or a DataFrame, held as the rows df.to_csv writes.
NoDataFrame == [none |-> TRUE, csv |-> << >>]
DataFrame(rows) == [none |-> FALSE, csv |-> rows]

Count(list, x) == Cardinality({ i \in 1..Len(list) : list[i] = x })

\* Counter(results_csv).most_common(1)[0][0]: the text counted most often,
\* and of several counted equally often the one met first.
MostCommon(list) ==
    LET first == CHOOSE i \in 1..Len(list) :
                     /\ \A j \in 1..Len(list) : Count(list, list[j]) <= Count(list, list[i])
                     /\ \A j \in 1..(i - 1) : Count(list, list[j]) < Count(list, list[i])
    IN  list[first]

\* What main prints at the end: "Most frequent result:" and the DataFrame
\* read back from the chosen text, or the message.
MostFrequentResult(csv) == << "Most frequent result:", csv >>
InconsistentResults == << "Inconsistent results, please run the test again." >>

\* perform_statcheck_test has returned: the end of one iteration of main's
\* loop.  The next call starts afresh on the same file_context.
EndRun ==
    /\ pc = "done"
    /\ run <= Runs
    /\ LET df == IF result = None THEN NoDataFrame ELSE DataFrame(statcheck_results)
       IN  /\ outputs' = Append(outputs, df)
           /\ results_list' = IF df.none THEN results_list ELSE Append(results_list, df.csv)
    /\ run' = run + 1
    /\ pc' = IF run' > Runs THEN "report" ELSE "extract"
    /\ responses' = << >> /\ extracted' = << >> /\ seg' = 1 /\ all_tests' = << >>
    /\ t' = 1 /\ statcheck_results' = << >> /\ row_src' = << >> /\ evals' = << >>
    /\ result' = None /\ loc' = NoLocals
    /\ UNCHANGED <<n_segments, printed, callvars>>

\* After the loop: the most frequent result, or the message.
Report ==
    /\ pc = "report"
    /\ printed' = IF results_list # << >>
                  THEN MostFrequentResult(MostCommon(results_list))
                  ELSE InconsistentResults
    /\ pc' = "end"
    /\ UNCHANGED <<responses, extracted, seg, all_tests, t, statcheck_results, row_src,
                   evals, result, loc, n_segments, run, results_list, outputs, callvars>>

\* What the language model may answer in a run: nothing usable, or one of
\* three tests.
MainTests ==
    { LitTest("t", LitNum(20, 0), LitNone, LitNum(210, 2), "=", LitNum(5, 2), LitNone, "two"),
      LitTest("z", LitNone, LitNone, LitNum(40, 0), ">", LitNum(5, 2), LitNone, "two"),
      LitTest("chi2", LitNum(20, 0), LitNone, LitNum(210, 2), "<", LitStr("ns"), LitNone, "two") }

MainAnswers == {ResponseNone} \cup { ResponseTests(<< lit >>) : lit \in MainTests }

\* main returns at once for an empty file_context.
InitMain == InitWith({1}) /\ NoCall

NextMain ==
    \/ ExtractSegment(MainAnswers)
    \/ FinishExtraction
    \/ CheckTest
    \/ ReturnResults
    \/ EndRun
    \/ Report

SpecMain == InitMain /\ [][NextMain]_allvars

\* ------------------------------------------------------------------------
\* determine_recalculated_significance called on any range
\* ------------------------------------------------------------------------
\* Probabilities around the thresholds: 0, 0.01, 0.05 - 1e-10, 0.05,
\* 0.05 + 1e-10, 0.07 and 1.
Probabilities ==
    { Zero, Num(1000, 0), Num(5000, -1), Num(5000, 0), Num(5000, 1), Num(7000, 0), One }

Thresholds == { 1000, SIGNIFICANCE_LEVEL, 7000 }

\* Every range (lower, upper) with lower <= upper, at either threshold.
RangeCalls ==
    { c \in [p_value_range : { Range(lo, hi) : lo \in Probabilities, hi \in Probabilities },
             significance_level : Thresholds] :
        NumLeq(c.p_value_range.lo, c.p_value_range.hi) }

InitSignificance == InitWith({0}) /\ call \in RangeCalls /\ ret = Pending

CallRecalculatedSignificance ==
    /\ ret = Pending
    /\ ret' = determine_recalculated_significance(call.p_value_range, call.significance_level)
    /\ UNCHANGED <<vars, n_segments, extracted, loc, mainvars, call>>

NextSignificance == CallRecalculatedSignificance

SpecSignificance == InitSignificance /\ [][NextSignificance]_allvars

\* ------------------------------------------------------------------------
\* read_context_from_file: splitting the text into overlapping segments
\* ------------------------------------------------------------------------
MAX_WORDS == 500
OVERLAP_WORDS == 8

MaxTextWords == 8
MaxWindow == 4

Min(a, b) == IF a <= b THEN a ELSE b

\* text.split() of a text of n words: every word is known by its place, so
\* that two occurrences of the same word are told apart.
Words(n) == [k \in 1..n |-> k]

\* words[i:j]
Slice(words, i, j) == SubSeq(words, i + 1, Min(j, Len(words)))

\* The texts and configurations: every text of up to MaxTextWords words under
\* every window of up to MaxWindow words with a smaller overlap, and under
\* the configuration of config.py a text three words longer than one step
\* and a text of two windows.
SegmentCalls ==
    { c \in [words : { Words(n) : n \in 0..MaxTextWords },
             max_words : 1..MaxWindow, overlap_words : 0..(MaxWindow - 1)] :
        c.overlap_words < c.max_words }
    \cup { [words |-> Words(n), max_words |-> MAX_WORDS, overlap_words |-> OVERLAP_WORDS] :
               n \in { MAX_WORDS - OVERLAP_WORDS + 3, 2 * MAX_WORDS } }

\* The state of the loop: i, the segments appended so far (a segment is held
\* as its list of words; " ".join keeps them, as no word holds a blank),
\* and whether the function has returned.
Segmenting(i, segments, done) == [i |-> i, segments |-> segments, done |-> done]

InitSegments == InitWith({0}) /\ call \in SegmentCalls /\ ret = Segmenting(0, << >>, FALSE)

\* One iteration of for i in range(0, len(words), step).
AppendSegment ==
    /\ ~ret.done
    /\ ret.i < Len(call.words)
    /\ LET step == call.max_words - call.overlap_words
           segment == Slice(call.words, ret.i, ret.i + call.max_words)
       IN  ret' = Segmenting(ret.i + step, Append(ret.segments, segment), FALSE)
    /\ UNCHANGED <<vars, n_segments, extracted, loc, mainvars, call>>

\* return segments
ReturnSegments ==
    /\ ~ret.done
    /\ ret.i >= Len(call.words)
    /\ ret' = Segmenting(ret.i, ret.segments, TRUE)
    /\ UNCHANGED <<vars, n_segments, extracted, loc, mainvars, call>>

NextSegments ==
    \/ AppendSegment
    \/ ReturnSegments

SpecSegments == InitSegments /\ [][NextSegments]_allvars


\* ------------------------------------------------------------------------
\* Properties
\* ------------------------------------------------------------------------
Rows == 1..Len(statcheck_results)
RowTest(k) == all_tests[row_src[k]]
HasNote(row, note) == \E i \in 1..Len(row.Notes) : row.Notes[i] = note

\* The test of row k as the answer wrote it (no test was dropped as a duplicate).
NothingDropped == Len(extracted) = Len(all_tests)
RowLit(k) == extracted[row_src[k]]

\* calculate_p_value as the statcheck loop calls it for a test.
Calculated(test) ==
    calculate_p_value(test.test_type, test.df1, test.df2, test.test_value,
        test.operator, test.reported_p_value,
        IF HuynhFeldtApplies(test) THEN test.epsilon ELSE PyNone, test.tail)

\* C1: every row of a test whose reported p-value is exactly 0 has the
\* verdict "No" and carries the note "A p-value is never exactly 0."
C1_ZeroIsAlwaysInconsistent ==
    \A k \in Rows :
        ReportedIsZero(RowTest(k).reported_p_value) =>
            /\ statcheck_results[k].Consistent = "No"
            /\ HasNote(statcheck_results[k], NoteZero)

\* C2: an r, t or z test without a tail gets the verdict, the range and the
\* notes of the same test with tail = "two".
C2_AbsentTailIsTwoTailed ==
    \A k \in Rows :
        LET test == RowTest(k)
            two == [test EXCEPT !.tail = "two"]
            row_two == RowOf(two, EvalOf(two))
        IN  (test.test_type \in {"r", "t", "z"} /\ test.tail = None) =>
                /\ statcheck_results[k].Consistent = row_two.Consistent
                /\ statcheck_results[k].Range = row_two.Range
                /\ statcheck_results[k].Notes = row_two.Notes

C4_Uncomputable(test) ==
    /\ IsNumber(test.reported_p_value)
    /\ \/ test.test_type \notin {"r", "t", "f", "chi2", "z"}
       \/ (test.test_type \in {"t", "chi2"} /\ IsNone(test.df1))
       \/ (test.test_type = "f" /\ (IsNone(test.df1) \/ IsNone(test.df2)))
       \/ (test.test_type \in {"r", "t", "z"} /\ test.tail \notin {"one", "two"})

C5_OneRowPerCompleteTest ==
    pc \in {"check", "done"} =>
        /\ Len(row_src) = Len(statcheck_results)
        /\ \A k \in Rows :
               /\ row_src[k] \in 1..(t - 1)
               /\ ~Skipped(RowTest(k))
               /\ statcheck_results[k] = RowOf(RowTest(k), EvalOf(RowTest(k)))
        /\ \A j, k \in Rows : j < k => row_src[j] < row_src[k]
        /\ \A i \in 1..(t - 1) :
               ~Skipped(all_tests[i]) => \E k \in Rows : row_src[k] = i
        /\ (pc = "done" => t = Len(all_tests) + 1)

\* A finished batch of three tests: an uncomputable one, an incomplete one,
\* and a third one that still got its row.
C5_Witness ==
    /\ pc = "done"
    /\ Len(all_tests) = 3
    /\ Skipped(all_tests[2])
    /\ Len(statcheck_results) = 2
    /\ evals[1].general
    /\ evals[1].out.range.none
    /\ row_src = << 1, 3 >>

\* C6: once calculate_p_value has a range and a numeric reported value, the
\* answer is: "<" consistent iff lower < reported; ">" consistent iff
\* upper > reported; "=" consistent iff the window around the reported value
\* and [lower, upper] have a point in common.
C6_CompareByOperator ==
    \A k \in Rows :
        LET test == RowTest(k)
            out == evals[k].out
            reported == Num(test.reported_p_value.v, 0)
            window == ReportedWindow(test.reported_p_value.v)
        IN  (evals[k].general /\ out.compared) =>
                /\ NumLeq(out.range.lo, out.range.hi)
                /\ (test.operator = "<" =>
                        (out.consistent <=> NumLess(out.range.lo, reported)))
                /\ (test.operator = ">" =>
                        (out.consistent <=> NumLess(reported, out.range.hi)))
                /\ (test.operator = "=" =>
                        (out.consistent <=>
                            ~(NumLess(window[2], out.range.lo) \/ NumLess(out.range.hi, window[1]))))

\* A "<" comparison that is inconsistent because lower equals the reported value.
C6_Witness ==
    \E k \in Rows :
        /\ evals[k].general
        /\ evals[k].out.compared
        /\ RowTest(k).operator = "<"
        /\ evals[k].out.range.lo = Num(RowTest(k).reported_p_value.v, 0)
        /\ ~evals[k].out.consistent

\* Twice the window [value - 0.5 * 10^(-d), value + 0.5 * 10^(-d) - 1e-10]
\* (twice, so that d = 5 is within the resolution of 1e-5).
TwiceWindowOf(value, d) ==
    << Num(2 * value - 10^(5 - d), 0), Num(2 * value + 10^(5 - d), -2) >>
Twice(window) == << NumDouble(window[1]), NumDouble(window[2]) >>

\* C7: for "=", the window around the reported p-value is
\* [p - 0.5 * 10^(-d), p + 0.5 * 10^(-d) - 1e-10] with d the number of decimals
\* the value was written with, but at least 2.
C7_ReportedWindowFlooredAtTwo ==
    \A k \in Rows :
        LET test == RowTest(k)
            written == RowLit(k).reported_p_value
        IN  (NothingDropped /\ evals[k].general /\ evals[k].out.compared
                /\ test.operator = "=") =>
                Twice(ReportedWindow(test.reported_p_value.v)) =
                    TwiceWindowOf(test.reported_p_value.v, Max(written.d, 2))

\* C8: the window around the test statistic is
\* [value - 0.5 * 10^(-d), value + 0.5 * 10^(-d) - 1e-10] with d the number of
\* decimals the statistic was written with, zeros included, but at least 2.
C8_WindowFromWrittenDecimals ==
    \A k \in Rows :
        (NothingDropped /\ evals[k].general /\ evals[k].out.window # << >>) =>
            Twice(evals[k].out.window) =
                TwiceWindowOf(RowTest(k).test_value.v, Max(RowLit(k).test_value.d, 2))

\* C9: the two survival-function calls are made on the two window bounds,
\* with the distribution and the arguments of the test type.
C9_Call(test, c) ==
    CASE test.test_type = "r" ->
           c.dist = "t" /\ c.conv = "r2t" /\ c.abs /\ c.dfn = test.df1.v /\ c.dfd = 0
      [] test.test_type = "t" ->
           c.dist = "t" /\ c.conv = "id" /\ c.abs /\ c.dfn = test.df1.v /\ c.dfd = 0
      [] test.test_type = "chi2" ->
           c.dist = "chi2" /\ c.conv = "id" /\ ~c.abs /\ c.dfn = test.df1.v /\ c.dfd = 0
      [] test.test_type = "z" ->
           c.dist = "norm" /\ c.conv = "id" /\ c.abs /\ c.dfn = 0 /\ c.dfd = 0
      [] test.test_type = "f" ->
           /\ c.dist = "f" /\ c.conv = "id" /\ ~c.abs
           /\ IF ~IsNone(test.epsilon) /\ test.df1.ty = "int" /\ test.df2.ty = "int"
              THEN /\ c.dfn = Times(test.epsilon.v, test.df1.v)
                   /\ c.dfd = Times(test.epsilon.v, test.df2.v)
              ELSE /\ c.dfn = test.df1.v
                   /\ c.dfd = test.df2.v
      [] OTHER -> FALSE

C9_SurvivalFunctionCalls ==
    \A k \in Rows :
        LET out == evals[k].out
        IN  (evals[k].general /\ out.calls # << >>) =>
                /\ Len(out.calls) = 2
                /\ \A i \in 1..2 :
                       /\ out.calls[i].x = out.window[i]
                       /\ C9_Call(RowTest(k), out.calls[i])
                /\ (~out.range.none =>
                       /\ out.range.lo \in {TailAdjust(RowTest(k).test_type, RowTest(k).tail, Sf(out.calls[i])).p : i \in 1..2}
                       /\ out.range.hi \in {TailAdjust(RowTest(k).test_type, RowTest(k).tail, Sf(out.calls[i])).p : i \in 1..2})

\* An f-test F(20, 25) with epsilon = 0.75: both degrees of freedom are
\* scaled, to 15 and 18.75.
C9_Witness ==
    \E k \in Rows :
        /\ evals[k].general
        /\ RowTest(k).test_type = "f"
        /\ ~IsNone(RowTest(k).epsilon)
        /\ RowTest(k).df1 = PyInt(20 * Scale)
        /\ RowTest(k).df2 = PyInt(25 * Scale)
        /\ Len(evals[k].out.calls) = 2
        /\ evals[k].out.calls[1].dfn = 15 * Scale
        /\ evals[k].out.calls[1].dfd = 1875 * 10^3

\* C10: a correlation without df1 and with a numeric reported p-value gets
\* the verdict "Cannot determine", the range "N/A", the citation "r = value"
\* with two decimals and the missing-df note alone, without the general
\* pipeline.
C10_CorrelationWithoutDf ==
    \A k \in Rows :
        LET test == RowTest(k)
            row == statcheck_results[k]
        IN  (test.test_type = "r" /\ IsNone(test.df1) /\ IsNumber(test.reported_p_value)) =>
                /\ ~evals[k].general
                /\ row.Consistent = "Cannot determine"
                /\ row.Range = RangeNA
                /\ row.APA.test_type = "r"
                /\ ~row.APA.paren /\ row.APA.dfs = << >> /\ ~row.APA.ns
                /\ row.APA.value = Text("digits", test.test_value.v, TRUE, 2)
                /\ row.Notes = << NoteRNoDf >>

\* Such a row for a reported p-value of exactly 0 with operator "<".
C10_Witness ==
    \E k \in Rows :
        /\ RowTest(k).test_type = "r"
        /\ IsNone(RowTest(k).df1)
        /\ ReportedIsZero(RowTest(k).reported_p_value)
        /\ RowTest(k).operator = "<"
        /\ statcheck_results[k].Consistent = "Cannot determine"

\* C11: in every row the citation is "type(df1[, df2]) = value" with the
\* value at two decimals when df1 is present (df2 listed only when present),
\* and "type = value" without parentheses when df1 is absent; rows of tests
\* reported as "ns" included.
C11_CitationForm ==
    \A k \in Rows :
        LET test == RowTest(k)
            apa == statcheck_results[k].APA
        IN  /\ apa.test_type = test.test_type
            /\ apa.value = Format2f(test.test_value)
            /\ IF ~IsNone(test.df1)
               THEN /\ apa.paren
                    /\ Len(apa.dfs) = IF IsNone(test.df2) THEN 1 ELSE 2
               ELSE /\ ~apa.paren
                    /\ apa.dfs = << >>

RunOutputs == { outputs[i] : i \in 1..Len(outputs) }
ProducedBy(output) == Count(outputs, output)

\* C13: main runs the check three times and reports an output that no other
\* output was produced more often than; the message "Inconsistent results"
\* is printed only when no output was produced more often than every other.
C13_ReportsMostFrequentOutput ==
    pc = "end" =>
        /\ Len(outputs) = Runs
        /\ printed # InconsistentResults =>
               \E o \in RunOutputs :
                   /\ ~o.none /\ printed = MostFrequentResult(o.csv)
                   /\ \A p \in RunOutputs : ProducedBy(p) <= ProducedBy(o)
        /\ printed = InconsistentResults =>
               ~\E o \in RunOutputs : \A p \in RunOutputs \ {o} : ProducedBy(p) < ProducedBy(o)

\* The range and the threshold of a returned call.
CallLower == call.p_value_range.lo
CallUpper == call.p_value_range.hi
CallAlpha == Num(call.significance_level, 0)

\* C14 as stated: the verdict is significant iff upper < alpha, not
\* significant iff lower > alpha, and indeterminate iff alpha lies strictly
\* inside [lower, upper].
C14_IndeterminateStrictlyInside ==
    ret # Pending =>
        /\ ret = "True" <=> NumLess(CallUpper, CallAlpha)
        /\ ret = "False" <=> NumLess(CallAlpha, CallLower)
        /\ ret = None <=> (NumLess(CallLower, CallAlpha) /\ NumLess(CallAlpha, CallUpper))

\* C14, amended: significant iff upper < alpha, not significant iff
\* lower > alpha, indeterminate iff lower <= alpha <= upper; exactly one of
\* the three holds for every range.
C14_IndeterminateInsideOrOnBound ==
    ret # Pending =>
        /\ ret \in {"True", "False", None}
        /\ ret = "True" <=> NumLess(CallUpper, CallAlpha)
        /\ ret = "False" <=> NumLess(CallAlpha, CallLower)
        /\ ret = None <=> (NumLeq(CallLower, CallAlpha) /\ NumLeq(CallAlpha, CallUpper))
        /\ ~(NumLess(CallUpper, CallAlpha) /\ NumLess(CallAlpha, CallLower))

\* A range whose upper bound is the threshold itself has been judged.
C14_Witness ==
    /\ ret = None
    /\ CallUpper = CallAlpha
    /\ NumLess(CallLower, CallAlpha)

\* The significance verdicts as the claims state them: of the reported
\* p-value ("True", "False", or None for "ns" and unparseable values) and of
\* the recalculated range.
ReportedVerdict(test) ==
    IF ~IsNumber(test.reported_p_value) THEN None
    ELSE IF test.operator \in {"=", "<"}
    THEN (IF test.reported_p_value.v <= SIGNIFICANCE_LEVEL THEN "True" ELSE "False")
    ELSE (IF test.reported_p_value.v < SIGNIFICANCE_LEVEL THEN "True" ELSE "False")

RecalculatedVerdict(range) ==
    IF range.none THEN None
    ELSE IF NumLess(range.hi, Num(SIGNIFICANCE_LEVEL, 0)) THEN "True"
    ELSE IF NumLess(Num(SIGNIFICANCE_LEVEL, 0), range.lo) THEN "False"
    ELSE None

VerdictsDisagree(test, range) ==
    /\ ReportedVerdict(test) # None
    /\ RecalculatedVerdict(range) # None
    /\ ReportedVerdict(test) # RecalculatedVerdict(range)

OneTailed(test) ==
    calculate_p_value(test.test_type, test.df1, test.df2, test.test_value,
        test.operator, test.reported_p_value, PyNone, "one")

\* C16: a row of an r, t or z test with tail "two" carries the one-tailed
\* note iff the two-tailed evaluation is inconsistent and the evaluation
\* with tail "one" is consistent; its verdict is that of the two-tailed
\* evaluation; rows of chi2 and f tests and of tests with another tail never
\* carry the note, and no second evaluation is made for them.
C16_OneTailedFallback ==
    \A k \in Rows :
        LET test == RowTest(k)
            row == statcheck_results[k]
        IN  evals[k].general =>
                IF test.test_type \in {"r", "t", "z"} /\ test.tail = "two"
                THEN /\ HasNote(row, NoteOneTailed) <=>
                            (~evals[k].out.consistent /\ OneTailed(test).consistent)
                     /\ row.Consistent = IF evals[k].out.consistent THEN "Yes" ELSE "No"
                ELSE /\ ~HasNote(row, NoteOneTailed)
                     /\ ~evals[k].fallback

\* The tests of the answers, parsed, in the order the segments held them.
Concatenation == ParseTests(extracted)

\* all_tests is what is left of the concatenation when kept says, in
\* increasing order, which places were retained: every other place holds a
\* test equal to the one retained immediately before it.
RetainedAt(kept) ==
    /\ \A i \in 1..Len(all_tests) : all_tests[i] = Concatenation[kept[i]]
    /\ \A i \in 1..(Len(all_tests) - 1) : kept[i] < kept[i + 1]
    /\ \A j \in 1..Len(Concatenation) :
           (\A i \in 1..Len(all_tests) : kept[i] # j) =>
               \E i \in 1..Len(all_tests) :
                   /\ kept[i] < j
                   /\ \A h \in 1..Len(all_tests) : kept[h] < j => kept[h] <= kept[i]
                   /\ TestEq(Concatenation[j], all_tests[i])

\* C17: after any number of segments of the extraction loop, all_tests holds
\* no two adjacent equal tests, is a subsequence of the concatenation of the
\* extracted tests in their order, and lacks a test only where it equals the
\* test retained immediately before it.
C17_AdjacentDuplicatesDropped ==
    pc = "extract" =>
        /\ \A i \in 1..(Len(all_tests) - 1) : ~TestEq(all_tests[i], all_tests[i + 1])
        /\ Len(all_tests) <= Len(Concatenation)
        /\ \E kept \in [1..Len(all_tests) -> 1..Len(Concatenation)] : RetainedAt(kept)

\* Two segments whose answers overlap in one test: the repeat is dropped and
\* the test after it is kept.
C17_Witness ==
    /\ pc = "extract"
    /\ seg > n_segments
    /\ Len(responses) = 2
    /\ Len(extracted) = 3
    /\ extracted[1] = extracted[2]
    /\ Len(all_tests) = 2
    /\ all_tests[2] = ParseTest(extracted[3])

\* calculate_p_value as the statcheck loop would call it for a test, with
\* the given tail.
CalculatedWithTail(test, tail) ==
    calculate_p_value(test.test_type, test.df1, test.df2, test.test_value,
        test.operator, test.reported_p_value,
        IF HuynhFeldtApplies(test) THEN test.epsilon ELSE PyNone, tail)

\* A one-tailed probability as the claim adjusts it.
Adjusted(test_type, tail, p) ==
    IF test_type \in {"r", "t", "z"} /\ tail = "two" THEN NumMin(NumDouble(p), One) ELSE p

\* C18: for every test with a test statistic and every tail, the range
\* calculate_p_value returns is (None, None) or has 0 <= lower <= upper <= 1,
\* lower and upper being the min and max of the two probabilities, each
\* doubled and clamped to 1 for r, t, z with tail "two"; for chi2 and f the
\* tail changes nothing.
C18_RangeWellFormed ==
    \A i \in 1..Len(all_tests) :
        LET test == all_tests[i]
        IN  IsNumber(test.test_value) =>
                \A tail \in Tails :
                    LET out == CalculatedWithTail(test, tail)
                        p1 == Adjusted(test.test_type, tail, Sf(out.calls[1]))
                        p2 == Adjusted(test.test_type, tail, Sf(out.calls[2]))
                    IN  /\ ~out.range.none =>
                               /\ NumLeq(Zero, out.range.lo)
                               /\ NumLeq(out.range.lo, out.range.hi)
                               /\ NumLeq(out.range.hi, One)
                               /\ out.range.lo = NumMin(p1, p2)
                               /\ out.range.hi = NumMax(p1, p2)
                        /\ test.test_type \in {"chi2", "f"} =>
                               out = CalculatedWithTail(test, "one")
                        /\ (tail = test.tail /\ pc = "done" /\ Len(evals) = 1 /\ evals[1].general) =>
                               evals[1].out = out

\* A finished row of a two-tailed t-test whose upper bound is a doubled
\* probability.
C18_Witness ==
    /\ pc = "done"
    /\ \E k \in Rows :
        /\ evals[k].general
        /\ ~evals[k].out.range.none
        /\ RowTest(k).test_type = "t"
        /\ RowTest(k).tail = "two"
        /\ evals[k].out.range.hi = NumDouble(Sf(evals[k].out.calls[1]))
        /\ NumLess(Sf(evals[k].out.calls[1]), evals[k].out.range.hi)

\* C19: a row of the general pipeline shows "N/A" iff the range is
\* (None, None), and shows every computed range, also one with a bound equal
\* to 0, as "lower to upper".
C19_NAOnlyWithoutRange ==
    \A k \in Rows :
        evals[k].general =>
            /\ statcheck_results[k].Range.na <=> evals[k].out.range.none
            /\ ~evals[k].out.range.none =>
                   statcheck_results[k].Range =
                       RangeText(evals[k].out.range.lo, evals[k].out.range.hi)

\* Rows of tests with a numeric reported p-value and a computed range.
C20_Rows ==
    { k \in Rows : /\ evals[k].general
                   /\ IsNumber(RowTest(k).reported_p_value)
                   /\ ~evals[k].out.range.none }

NewWords(segments, k) ==
    { segments[k][j] : j \in 1..Len(segments[k]) }
        \ { segments[k - 1][j] : j \in 1..Len(segments[k - 1]) }

\* The last n words of a segment.
LastWords(segment, n) == SubSeq(segment, Len(segment) - n + 1, Len(segment))

\* C21: the segments returned are runs of the text that together hold every
\* word, each of at most max_words words; every segment after the first
\* starts with the last overlap_words words of the segment before it and
\* holds at least one word that segment does not.
C21_SegmentsOverlapAndAdvance ==
    (call # << >> /\ ret.done) =>
        LET words == call.words
            segments == ret.segments
        IN  /\ \A w \in 1..Len(words) :
                   \E k \in 1..Len(segments) : \E j \in 1..Len(segments[k]) : segments[k][j] = words[w]
            /\ \A k \in 1..Len(segments) :
                   /\ Len(segments[k]) <= call.max_words
                   /\ \E a \in 1..Len(words) :
                          segments[k] = SubSeq(words, a, a + Len(segments[k]) - 1)
            /\ \A k \in 2..Len(segments) :
                   /\ Len(segments[k]) >= call.overlap_words
                   /\ Len(segments[k - 1]) >= call.overlap_words
                   /\ SubSeq(segments[k], 1, call.overlap_words) =
                          LastWords(segments[k - 1], call.overlap_words)
                   /\ NewWords(segments, k) # {}

====
